---- MODULE Spec2Model ----
(***************************************************************************)
(* Model of gui/plugins/timeline_view.py: the event table's windowed,      *)
(* cached reader (EventTable.BuildTable and EventTable.content_cache), the *)
(* event message renderer and the event detail lookup.                     *)
(*                                                                         *)
(* Strings that the code concatenates or formats are sequences of          *)
(* one-character strings, so that key construction is computed the way     *)
(* the code computes it.                                                   *)
(***************************************************************************)
EXTENDS Integers, Sequences, FiniteSets, TLC

VARIABLES
  store,     \* the backing store: number of events held by each container
  cache,     \* EventTable.content_cache (sequential model): key -> iterator
  last,      \* the last BuildTable call made one at a time: request and outcome
  scroll,    \* a caller scrolling forward through one (container, query)
  message,   \* the EventMessageRenderer last laid out: type, layout_template
  detail,    \* the last GetEvent call: request and outcome
  iters,     \* concurrent model: the iterator objects, by reference
  calls,     \* concurrent model: each thread's BuildTable call in progress
  started    \* concurrent model: number of calls started

vars == <<store, cache, last, scroll, message, detail, iters, calls, started>>

\* the variables of the concurrent model alone
concvars == <<iters, calls, started>>

-----------------------------------------------------------------------------
(* Bounds of the model *)

\* most events a container holds
MaxEvents == 2

\* largest end_row of a window requested directly
MaxRow == 2

\* most entries the shared cache holds at once
MaxCache == 2

\* most calls started in the concurrent model
MaxCalls == 3

-----------------------------------------------------------------------------
(* The requests: containers, queries, tokens *)

\* two container names; the second ends with the separator of the key
ContainerA == <<"a">>
ContainerAColon == <<"a", ":">>
Containers == {ContainerA, ContainerAColon}

\* the empty query (the default), a query that is the separator of the key,
\* and a query with a percent sign
QueryAll == <<>>
QueryColon == <<":">>
QueryPercent == <<"5", "%">>
Queries == {QueryAll, QueryColon, QueryPercent}

Tokens == {"analyst", "intruder"}

-----------------------------------------------------------------------------
(* The backing store (aff4), as the code uses it *)

\* the type tag of the event with sequence id i
TypeOf(i) ==
  CASE i % 4 = 0 -> "file.mtime"
    [] i % 4 = 1 -> "file.atime"
    [] i % 4 = 2 -> "file.ctime"
    [] OTHER -> "registry.key"

\* the event with sequence id i of container c
EventOf(c, i) == [id |-> i, subject |-> c, type |-> TypeOf(i)]

\* iteration over an opened container: all its events in sequence order
ContainerEvents(st, c) == [i \in 1..st[c] |-> EventOf(c, i - 1)]

\* the backing store's filter: which events a query expression selects
Matches(q, ev) ==
  IF q = QueryColon THEN ev.type # "file.mtime" ELSE TRUE

\* fd.Query(query): the matching events of the container, in sequence order
Query(st, c, q) == SelectSeq(ContainerEvents(st, c), LAMBDA ev : Matches(q, ev))

\* aff4.FACTORY.Open(container, token=...): the store checks the token
Authorized(tok) == tok = "analyst"

-----------------------------------------------------------------------------
(* Key construction: key = container + ":" + query + ":%d"; key % row *)

DigitChar == <<"0", "1", "2", "3", "4", "5", "6", "7", "8", "9">>

RECURSIVE Decimal(_)
Decimal(n) ==
  IF n < 10 THEN <<DigitChar[n + 1]>>
  ELSE Decimal(n \div 10) \o <<DigitChar[(n % 10) + 1]>>

\* the errors the % operator raises
ValueError == [ok |-> FALSE, str |-> <<>>, err |-> "ValueError"]
TypeError == [ok |-> FALSE, str |-> <<>>, err |-> "TypeError"]
Formatted(str) == [ok |-> TRUE, str |-> str, err |-> "none"]

\* Python's `template % n` with one integer argument: "%d" consumes the
\* argument, "%%" is a literal percent sign, any other character after "%"
\* is an unsupported format character, and the argument must be consumed
\* exactly once.
RECURSIVE PercentFormat(_, _, _)
PercentFormat(s, n, used) ==
  IF s = <<>> THEN
    IF used THEN Formatted(<<>>) ELSE TypeError
  ELSE IF Head(s) # "%" THEN
    LET rest == PercentFormat(Tail(s), n, used)
    IN  IF rest.ok THEN Formatted(<<Head(s)>> \o rest.str) ELSE rest
  ELSE IF Len(s) = 1 THEN ValueError
  ELSE IF s[2] = "%" THEN
    LET rest == PercentFormat(Tail(Tail(s)), n, used)
    IN  IF rest.ok THEN Formatted(<<"%">> \o rest.str) ELSE rest
  ELSE IF s[2] = "d" THEN
    IF used THEN TypeError
    ELSE LET rest == PercentFormat(Tail(Tail(s)), n, TRUE)
         IN  IF rest.ok THEN Formatted(Decimal(n) \o rest.str) ELSE rest
  ELSE ValueError

\* key = utils.SmartUnicode(container); key += ":" + query + ":%d"
KeyTemplate(c, q) == c \o <<":">> \o q \o <<":", "%", "d">>

\* key % row
KeyFor(c, q, row) == PercentFormat(KeyTemplate(c, q), row, FALSE)

-----------------------------------------------------------------------------
(* EventTable.content_cache, a utils.TimeBasedCache *)

EmptyCache == [k \in {} |-> 0]

\* Get succeeds exactly on the keys the cache holds, else raises KeyError
CacheHas(ch, key) == key \in DOMAIN ch

CacheGet(ch, key) == ch[key]

CacheExpireObject(ch, key) == [k \in (DOMAIN ch) \ {key} |-> ch[k]]

CachePut(ch, key, obj) ==
  [k \in (DOMAIN ch) \cup {key} |-> IF k = key THEN obj ELSE ch[k]]

-----------------------------------------------------------------------------
(* EventTable.BuildTable, one call run alone *)

\* events = fd.Query(query): an iterator over the matching events, nothing
\* consumed yet.  An iterator is the result it walks and its position.
NewIterator(c, q) == [cont |-> c, query |-> q, pos |-> 0]

\* a faulty variant of the hit branch, which restarts the row count
HitActRowFromZero(start_row) == 0

\* act_row = start_row, after a cache hit
HitActRow(start_row) == start_row

\* act_row = 0, after a fresh query
MissActRow == 0

\* if act_row < start_row: skip the event
Skipped(act_row, start_row) == act_row < start_row

\* if act_row >= end_row: the window is full
WindowFull(act_row, end_row) == act_row >= end_row

\* self.size = act_row + 1
TableSize(act_row) == act_row + 1

\* a faulty variant of SaveRow, which saves the iterator one row too far
SaveRowPlusOne(act_row) == act_row + 1

\* the row the iterator is saved under: key % act_row
SaveRow(act_row) == act_row

\* self.AddCell(act_row, ...), column.AddRowFromFd(act_row, child)
AddRow(rows, act_row, child) == Append(rows, [row |-> act_row, event |-> child])

\* for child in events: ... over the events `res` of the iterator, from its
\* position `pos`.  full: the loop returned from inside (the window is
\* full); otherwise the iterator ran out.
RECURSIVE TableLoop(_, _, _, _, _, _)
TableLoop(res, pos, act_row, start_row, end_row, rows) ==
  IF pos >= Len(res) THEN
    [rows |-> rows, act_row |-> act_row, pos |-> pos, full |-> FALSE]
  ELSE
    LET child == res[pos + 1]
    IN  IF Skipped(act_row, start_row) THEN
          TableLoop(res, pos + 1, act_row + 1, start_row, end_row, rows)
        ELSE IF WindowFull(act_row + 1, end_row) THEN
          [rows |-> AddRow(rows, act_row, child), act_row |-> act_row + 1,
           pos |-> pos + 1, full |-> TRUE]
        ELSE
          TableLoop(res, pos + 1, act_row + 1, start_row, end_row,
                    AddRow(rows, act_row, child))

Request(c, q, start_row, end_row, tok) ==
  [container |-> c, query |-> q, start_row |-> start_row,
   end_row |-> end_row, token |-> tok]

\* the call raised err before it had an iterator
Raised(err, ch) ==
  [error |-> err, path |-> "none", rows |-> <<>>, size |-> 0, cache |-> ch,
   events |-> NewIterator(<<>>, <<>>)]

\* the loop and the save, from iterator `events` with act_row as set by the
\* hit or the miss branch
FillTable(st, ch, req, events, act_row, path) ==
  LET r == TableLoop(Query(st, events.cont, events.query), events.pos,
                     act_row, req.start_row, req.end_row, <<>>)
      saved == [events EXCEPT !.pos = r.pos]
      savekey == KeyFor(req.container, req.query, SaveRow(r.act_row))
  IN  IF ~r.full THEN
        [error |-> "none", path |-> path, rows |-> r.rows, size |-> 0,
         cache |-> ch, events |-> events]
      ELSE IF ~savekey.ok THEN Raised(savekey.err, ch)
      ELSE
        [error |-> "none", path |-> path, rows |-> r.rows,
         size |-> TableSize(r.act_row),
         cache |-> CachePut(ch, savekey.str, saved), events |-> events]

\* a faulty variant of BuildTable, which leaves out ExpireObject after Get
BuildTableKeepingEntry(st, ch, req) ==
  LET key == KeyFor(req.container, req.query, req.start_row)
  IN  IF ~key.ok THEN Raised(key.err, ch)
      ELSE IF CacheHas(ch, key.str) THEN
        FillTable(st, ch, req, CacheGet(ch, key.str),
                  HitActRow(req.start_row), "hit")
      ELSE IF ~Authorized(req.token) THEN Raised("AccessError", ch)
      ELSE
        FillTable(st, ch, req, NewIterator(req.container, req.query),
                  MissActRow, "miss")

\* BuildTable(start_row, end_row, request) on store st and cache ch: the
\* rows added to the table, self.size (0 when it is not set), the error
\* raised if any, the cache afterwards, and the iterator `events` as the
\* call got it (from the cache on the hit path, from Query on the miss path).
BuildTable(st, ch, req) ==
  LET key == KeyFor(req.container, req.query, req.start_row)
  IN  IF ~key.ok THEN Raised(key.err, ch)
      ELSE IF CacheHas(ch, key.str) THEN
        FillTable(st, CacheExpireObject(ch, key.str), req,
                  CacheGet(ch, key.str), HitActRow(req.start_row), "hit")
      ELSE IF ~Authorized(req.token) THEN Raised("AccessError", ch)
      ELSE
        FillTable(st, ch, req, NewIterator(req.container, req.query),
                  MissActRow, "miss")

-----------------------------------------------------------------------------
(* EventMessageRenderer *)

default_template == "Event of type {{this.type|escape}}"

\* a faulty variant of the dispatcher, which lacks the "file.ctime" entry
dispatcher_without_ctime ==
  [t \in {"file.mtime", "file.atime"} |->
     CASE t = "file.mtime" -> "<div><pre class='inline'>M--</pre> File modified.</div>"
       [] t = "file.atime" -> "<div><pre class='inline'>-A-</pre> File access.</div>"]

event_template_dispatcher ==
  [t \in {"file.mtime", "file.atime", "file.ctime"} |->
     CASE t = "file.mtime" -> "<div><pre class='inline'>M--</pre> File modified.</div>"
       [] t = "file.atime" -> "<div><pre class='inline'>-A-</pre> File access.</div>"
       [] t = "file.ctime" -> "<div><pre class='inline'>--C</pre> File metadata changed.</div>"]

\* dict.get(key, default)
DictGet(d, key, default) == IF key \in DOMAIN d THEN d[key] ELSE default

\* EventMessageRenderer.Layout: self.type and self.layout_template
MessageLayout(type) ==
  [type |-> type,
   layout_template |-> DictGet(event_template_dispatcher, type, default_template)]

\* the type tags a rendered event may carry
EventTypes == {"file.mtime", "file.atime", "file.ctime", "registry.key", ""}

NoMessage == [type |-> "", layout_template |-> ""]

-----------------------------------------------------------------------------
(* EventSubjectView.GetEvent *)

\* request.REQ.get("event"): absent (None) or a string
NoParam == [present |-> FALSE, value |-> <<>>]
Param(str) == [present |-> TRUE, value |-> str]
NullId == <<"n", "u", "l", "l">>

\* the value of a decimal digit, -1 for any other character
DigitValue(ch) ==
  IF \E i \in 1..10 : DigitChar[i] = ch
  THEN (CHOOSE i \in 1..10 : DigitChar[i] = ch) - 1
  ELSE -1

\* int(event_id): the number a string of decimal digits denotes; ValueError
\* (ok = FALSE) for the empty string and for any other character
RECURSIVE ParseDigits(_, _)
ParseDigits(str, acc) ==
  IF str = <<>> THEN [ok |-> TRUE, value |-> acc]
  ELSE IF DigitValue(Head(str)) < 0 THEN [ok |-> FALSE, value |-> 0]
  ELSE ParseDigits(Tail(str), 10 * acc + DigitValue(Head(str)))

ParseInt(str) ==
  IF str = <<>> THEN [ok |-> FALSE, value |-> 0] ELSE ParseDigits(str, 0)

\* a faulty variant of the test, which forgets the "null" sentinel
HasEventIdNotNone(event_id) == event_id.present

\* if event_id is not None and event_id != "null"
HasEventId(event_id) == event_id.present /\ event_id.value # NullId

\* for child in fd: if child.id == event_id: return child
\* the result is <<child>> for a returned child and <<>> for None
RECURSIVE ScanForEvent(_, _, _)
ScanForEvent(events, i, event_id) ==
  IF i > Len(events) THEN <<>>
  ELSE IF events[i].id = event_id THEN <<events[i]>>
  ELSE ScanForEvent(events, i + 1, event_id)

DetailOutcome(opened, error, result) ==
  [opened |-> opened, error |-> error, result |-> result]

\* GetEvent(request) on store st
GetEvent(st, req) ==
  IF ~HasEventId(req.event) THEN DetailOutcome(FALSE, "none", <<>>)
  ELSE IF ~ParseInt(req.event.value).ok THEN
    DetailOutcome(FALSE, "ValueError", <<>>)
  ELSE IF ~Authorized(req.token) THEN DetailOutcome(FALSE, "AccessError", <<>>)
  ELSE DetailOutcome(TRUE, "none",
                     ScanForEvent(ContainerEvents(st, req.container), 1,
                                  ParseInt(req.event.value).value))

DetailRequest(event_id, c, tok) ==
  [event |-> event_id, container |-> c, token |-> tok]

\* the event parameters a request may carry
EventIds ==
  {NoParam, Param(NullId), Param(<<"x">>), Param(<<>>), Param(<<"0", "1">>)}
    \cup {Param(Decimal(i)) : i \in 0..MaxEvents}

NoDetail ==
  [op |-> "none", req |-> DetailRequest(NoParam, <<>>, "analyst"),
   out |-> DetailOutcome(FALSE, "none", <<>>)]

\* EventView.error_message
error_message == "Please select an event in the table above."

\* what a Layout call gives back: the error it raised, or the templates it
\* rendered into the response (none when it returns None)
LayoutOutcome(error, rendered) == [error |-> error, rendered |-> rendered]

\* EventSubjectView.Layout(request, response): with an event, the stats of
\* its subject; without one the method ends without a return statement
EventSubjectViewLayout(st, req) ==
  LET event == GetEvent(st, req)
  IN  IF event.error # "none" THEN LayoutOutcome(event.error, <<>>)
      ELSE IF event.result # <<>> THEN
        LayoutOutcome("none", <<"AFF4Stats.layout_template">>)
      ELSE LayoutOutcome("none", <<>>)

\* EventView.Layout(request, response): with an event, its attributes;
\* without one, error_message
EventViewLayout(st, req) ==
  LET event == GetEvent(st, req)
  IN  IF event.error # "none" THEN LayoutOutcome(event.error, <<>>)
      ELSE IF event.result # <<>> THEN
        LayoutOutcome("none", <<"EventView.layout_template">>)
      ELSE LayoutOutcome("none", <<error_message>>)

-----------------------------------------------------------------------------
(* The state machine of calls made one at a time *)

NoCall ==
  [op |-> "none", req |-> Request(<<>>, <<>>, 0, 0, "analyst"),
   error |-> "none", path |-> "none", rows |-> <<>>, size |-> 0,
   events |-> NewIterator(<<>>, <<>>)]

Outcome(req, r) ==
  [op |-> "BuildTable", req |-> req, error |-> r.error, path |-> r.path,
   rows |-> r.rows, size |-> r.size, events |-> r.events]

ScrollIdle ==
  [state |-> "idle", req |-> Request(<<>>, <<>>, 0, 0, "analyst"),
   width |-> 0, rows |-> <<>>, queries |-> 0]

\* the windows a caller may ask for: 0 <= start_row < end_row
Windows == {w \in (0..MaxRow) \X (0..MaxRow) : w[1] < w[2]}

\* the request-handling threads of the concurrent model
Threads == {"t1", "t2"}

\* a thread that is not inside BuildTable
IdleCall ==
  [pc |-> "idle", req |-> Request(<<>>, <<>>, 0, 0, "analyst"), events |-> 0,
   act_row |-> 0, rows |-> <<>>, size |-> 0, error |-> "none"]

Init ==
  /\ store \in [Containers -> 0..MaxEvents]
  /\ cache = EmptyCache
  /\ last = NoCall
  /\ scroll = ScrollIdle
  /\ message = NoMessage
  /\ detail = NoDetail
  /\ iters = <<>>
  /\ calls = [t \in Threads |-> IdleCall]
  /\ started = 0

\* one BuildTable call, run from its first line to its return (r is the
\* outcome of the call, computed once)
FetchWindow ==
  /\ scroll.state = "idle"
  /\ \E c \in Containers, q \in Queries, w \in Windows, tok \in Tokens :
       \E r \in {BuildTable(store, cache, Request(c, q, w[1], w[2], tok))} :
           /\ Cardinality(DOMAIN r.cache) <= MaxCache
           /\ cache' = r.cache
           /\ last' = Outcome(Request(c, q, w[1], w[2], tok), r)
  /\ UNCHANGED <<store, scroll, message, detail, concvars>>

\* the cache drops an entry whose time to live has run out
TimeExpire ==
  /\ \E k \in DOMAIN cache : cache' = CacheExpireObject(cache, k)
  /\ UNCHANGED <<store, last, scroll, message, detail, concvars>>

Next == FetchWindow \/ TimeExpire

Spec == Init /\ [][Next]_vars

-----------------------------------------------------------------------------
(* A caller that scrolls forward: windows [0,w), [w,2w), ... of one        *)
(* (container, query), each a BuildTable call, until the table is told     *)
(* that there are no more rows (self.size is not set) or a call fails.     *)

\* the scroll after the call for window [start, start + w) has returned r
Scrolled(sc, req, w, r) ==
  [state |-> IF r.error # "none" THEN "failed"
             ELSE IF r.size = 0 THEN "done" ELSE "running",
   req |-> req, width |-> w, rows |-> sc.rows \o r.rows,
   queries |-> sc.queries + (IF r.path = "miss" THEN 1 ELSE 0)]

\* the request for the window after the one last scrolled
NextWindow(sc) ==
  Request(sc.req.container, sc.req.query, sc.req.end_row,
          sc.req.end_row + sc.width, sc.req.token)

ScrollStart ==
  /\ scroll.state = "idle"
  /\ \E c \in Containers, q \in Queries, w \in 1..MaxRow, tok \in Tokens :
       \E r \in {BuildTable(store, cache, Request(c, q, 0, w, tok))} :
           /\ Cardinality(DOMAIN r.cache) <= MaxCache
           /\ cache' = r.cache
           /\ last' = Outcome(Request(c, q, 0, w, tok), r)
           /\ scroll' = Scrolled(scroll, Request(c, q, 0, w, tok), w, r)
  /\ UNCHANGED <<store, message, detail, concvars>>

ScrollNext ==
  /\ scroll.state = "running"
  /\ \E r \in {BuildTable(store, cache, NextWindow(scroll))} :
         /\ Cardinality(DOMAIN r.cache) <= MaxCache
         /\ cache' = r.cache
         /\ last' = Outcome(NextWindow(scroll), r)
         /\ scroll' = Scrolled(scroll, NextWindow(scroll), scroll.width, r)
  /\ UNCHANGED <<store, message, detail, concvars>>

NextScroll == FetchWindow \/ TimeExpire \/ ScrollStart \/ ScrollNext

SpecScroll == Init /\ [][NextScroll]_vars

\* a scroll during which no cache entry expires: the max_age of the cache
\* passes only while no scroll is running
TimeExpireBetweenScrolls ==
  /\ scroll.state # "running"
  /\ TimeExpire

NextChain ==
  FetchWindow \/ TimeExpireBetweenScrolls \/ ScrollStart \/ ScrollNext

SpecChain == Init /\ [][NextChain]_vars

-----------------------------------------------------------------------------
(* The renderers of one event: the message and the detail lookup *)

RenderMessage ==
  /\ \E t \in EventTypes : message' = MessageLayout(t)
  /\ UNCHANGED <<store, cache, last, scroll, detail, concvars>>

ResolveEventDetail ==
  /\ \E id \in EventIds, c \in Containers, tok \in Tokens :
       detail' = [op |-> "GetEvent", req |-> DetailRequest(id, c, tok),
                  out |-> GetEvent(store, DetailRequest(id, c, tok))]
  /\ UNCHANGED <<store, cache, last, scroll, message, concvars>>

\* the detail tab "Subject" is laid out
LayoutEventSubjectView ==
  /\ \E id \in EventIds, c \in Containers, tok \in Tokens :
       detail' = [op |-> "EventSubjectView.Layout",
                  req |-> DetailRequest(id, c, tok),
                  out |-> EventSubjectViewLayout(store,
                                                 DetailRequest(id, c, tok))]
  /\ UNCHANGED <<store, cache, last, scroll, message, concvars>>

\* the detail tab "Event" is laid out
LayoutEventView ==
  /\ \E id \in EventIds, c \in Containers, tok \in Tokens :
       detail' = [op |-> "EventView.Layout",
                  req |-> DetailRequest(id, c, tok),
                  out |-> EventViewLayout(store, DetailRequest(id, c, tok))]
  /\ UNCHANGED <<store, cache, last, scroll, message, concvars>>

NextView ==
  RenderMessage \/ ResolveEventDetail \/ LayoutEventSubjectView
    \/ LayoutEventView

SpecView == Init /\ [][NextView]_vars

-----------------------------------------------------------------------------
(* Concurrent BuildTable calls.  Each thread runs BuildTable step by step;  *)
(* the steps are its accesses to the shared cache and to the iterator: Get, *)
(* ExpireObject, Open/Query, one turn of the for loop, Put.  The cache      *)
(* holds references to iterator objects (indices into iters), as the        *)
(* Python objects are shared and not copied.  Calls that run at the same    *)
(* time are identical; a different call starts when no other is running.    *)

Running(t) == calls[t].pc # "idle"

\* a request enters BuildTable
CallStart(t) ==
  /\ ~Running(t)
  /\ started < MaxCalls
  /\ \E w \in Windows :
       /\ \A u \in Threads \ {t} :
            Running(u) =>
              calls[u].req = Request(ContainerA, QueryAll, w[1], w[2], "analyst")
       /\ calls' = [calls EXCEPT ![t] =
                      [IdleCall EXCEPT
                         !.pc = "get",
                         !.req = Request(ContainerA, QueryAll, w[1], w[2],
                                         "analyst")]]
  /\ started' = started + 1
  /\ UNCHANGED <<store, cache, last, scroll, message, detail, iters>>

\* events = self.content_cache.Get(key % start_row), or KeyError
CacheLookup(t) ==
  /\ calls[t].pc = "get"
  /\ \E key \in {KeyFor(calls[t].req.container, calls[t].req.query,
                        calls[t].req.start_row)} :
       calls' = [calls EXCEPT ![t] =
                   IF ~key.ok THEN [@ EXCEPT !.pc = "done", !.error = key.err]
                   ELSE IF CacheHas(cache, key.str) THEN
                     [@ EXCEPT !.pc = "expire",
                               !.events = CacheGet(cache, key.str)]
                   ELSE [@ EXCEPT !.pc = "open"]]
  /\ UNCHANGED <<store, cache, last, scroll, message, detail, iters, started>>

\* self.content_cache.ExpireObject(key % start_row); act_row = start_row.
\* The entry may be gone by now (another call removed it, or its time ran
\* out).  What ExpireObject does with a key it does not hold is the cache's
\* choice: it returns, or it raises KeyError and the call takes the except
\* branch.
CacheRemove(t) ==
  /\ calls[t].pc = "expire"
  /\ \E key \in {KeyFor(calls[t].req.container, calls[t].req.query,
                        calls[t].req.start_row).str} :
       \/ /\ cache' = CacheExpireObject(cache, key)
          /\ calls' = [calls EXCEPT ![t] =
                         [@ EXCEPT !.pc = "loop",
                                   !.act_row = HitActRow(calls[t].req.start_row)]]
       \/ /\ ~CacheHas(cache, key)
          /\ cache' = cache
          /\ calls' = [calls EXCEPT ![t] = [@ EXCEPT !.pc = "open"]]
  /\ UNCHANGED <<store, last, scroll, message, detail, iters, started>>

\* fd = aff4.FACTORY.Open(...); events = fd.Query(query); act_row = 0
OpenQuery(t) ==
  /\ calls[t].pc = "open"
  /\ IF ~Authorized(calls[t].req.token) THEN
       /\ calls' = [calls EXCEPT ![t] =
                      [@ EXCEPT !.pc = "done", !.error = "AccessError"]]
       /\ UNCHANGED iters
     ELSE
       /\ iters' = Append(iters, NewIterator(calls[t].req.container,
                                             calls[t].req.query))
       /\ calls' = [calls EXCEPT ![t] =
                      [@ EXCEPT !.pc = "loop", !.events = Len(iters) + 1,
                                !.act_row = MissActRow]]
  /\ UNCHANGED <<store, cache, last, scroll, message, detail, started>>

\* one turn of `for child in events`: the iterator yields its next event,
\* or is exhausted and the loop and the call end
LoopStep(t) ==
  /\ calls[t].pc = "loop"
  /\ LET it == iters[calls[t].events]
         res == Query(store, it.cont, it.query)
         c == calls[t]
     IN  IF it.pos >= Len(res) THEN
           /\ calls' = [calls EXCEPT ![t] = [@ EXCEPT !.pc = "done"]]
           /\ UNCHANGED iters
         ELSE
           /\ iters' = [iters EXCEPT ![c.events] = [@ EXCEPT !.pos = it.pos + 1]]
           /\ calls' = [calls EXCEPT ![t] =
                IF Skipped(c.act_row, c.req.start_row) THEN
                  [@ EXCEPT !.act_row = c.act_row + 1]
                ELSE IF WindowFull(c.act_row + 1, c.req.end_row) THEN
                  [@ EXCEPT !.rows = AddRow(c.rows, c.act_row, res[it.pos + 1]),
                            !.act_row = c.act_row + 1,
                            !.size = TableSize(c.act_row + 1),
                            !.pc = "put"]
                ELSE
                  [@ EXCEPT !.rows = AddRow(c.rows, c.act_row, res[it.pos + 1]),
                            !.act_row = c.act_row + 1]]
  /\ UNCHANGED <<store, cache, last, scroll, message, detail, started>>

\* self.content_cache.Put(key % act_row, events); return
CacheSave(t) ==
  /\ calls[t].pc = "put"
  /\ cache' = CachePut(cache,
                KeyFor(calls[t].req.container, calls[t].req.query,
                       SaveRow(calls[t].act_row)).str,
                calls[t].events)
  /\ calls' = [calls EXCEPT ![t] = [@ EXCEPT !.pc = "done"]]
  /\ UNCHANGED <<store, last, scroll, message, detail, iters, started>>

\* the call has returned; the thread is free for the next request
CallReturn(t) ==
  /\ calls[t].pc = "done"
  /\ calls' = [calls EXCEPT ![t] = IdleCall]
  /\ UNCHANGED <<store, cache, last, scroll, message, detail, iters, started>>

NextConc ==
  \E t \in Threads :
    \/ CallStart(t)
    \/ CacheLookup(t)
    \/ CacheRemove(t)
    \/ OpenQuery(t)
    \/ LoopStep(t)
    \/ CacheSave(t)
    \/ CallReturn(t)

SpecConc == Init /\ [][NextConc]_vars

-----------------------------------------------------------------------------
(* Properties of calls made one at a time *)

\* the rows of window [start_row, end_row) of the events matching (c, q):
\* positions start_row .. min(end_row, N) - 1, row i carrying row index i
WindowRows(st, c, q, start_row, end_row) ==
  LET res == Query(st, c, q)
      stop == IF end_row < Len(res) THEN end_row ELSE Len(res)
  IN  [i \in 1..(IF stop > start_row THEN stop - start_row ELSE 0) |->
         [row |-> start_row + i - 1, event |-> res[start_row + i]]]

\* C1: cache transparency.  Whatever calls and expiries came before, a call
\* returns the rows that the same call returns on an empty cache.
CacheTransparency ==
  last.op = "BuildTable" =>
    last.rows = BuildTable(store, EmptyCache, last.req).rows

\* C3: hasMore correctness.  A call that returns reports more rows
\* (self.size is set) exactly when a matching event exists at a position
\* >= end_row.
HasMoreCorrect ==
  (last.op = "BuildTable" /\ last.error = "none") =>
    ((last.size # 0) <=>
       (Len(Query(store, last.req.container, last.req.query))
          > last.req.end_row))

\* C5: no cross-container interference.  Every row of a call is the event
\* of its own (container, query) at the row's position, and an iterator
\* found in the cache was saved by a call for the same (container, query).
NoCrossContainerInterference ==
  (last.op = "BuildTable" /\ last.error = "none") =>
    /\ \A i \in 1..Len(last.rows) :
         LET res == Query(store, last.req.container, last.req.query)
             row == last.rows[i].row
         IN  row < Len(res) /\ last.rows[i].event = res[row + 1]
    /\ last.path = "hit" =>
         /\ last.events.cont = last.req.container
         /\ last.events.query = last.req.query

\* C6: authorization errors are surfaced.  A call whose token the store
\* does not authorize fails and returns no rows, in every cache state.
AuthorizationSurfaced ==
  (last.op = "BuildTable" /\ ~Authorized(last.req.token)) =>
    (last.error # "none" /\ last.rows = <<>>)

\* C9: window content on a cache miss.  A call by an authorized token that
\* finds no cache entry returns, without error, exactly the rows of its
\* window of the matching events.
MissWindowContent ==
  (last.op = "BuildTable" /\ Authorized(last.req.token)
     /\ last.path # "hit") =>
    /\ last.error = "none"
    /\ last.rows = WindowRows(store, last.req.container, last.req.query,
                              last.req.start_row, last.req.end_row)

\* C10: cache entry position invariant.  The entry under the key of
\* (container, query, k) is an iterator over the result of (container,
\* query) from which exactly k events have been consumed.
CacheEntryPosition ==
  \A c \in Containers, q \in Queries, k \in 0..(MaxRow + MaxEvents) :
    (KeyFor(c, q, k).ok /\ CacheHas(cache, KeyFor(c, q, k).str)) =>
      /\ CacheGet(cache, KeyFor(c, q, k).str).cont = c
      /\ CacheGet(cache, KeyFor(c, q, k).str).query = q
      /\ CacheGet(cache, KeyFor(c, q, k).str).pos = k

\* C11: no exhausted checkpoint.  Every iterator held by the cache has a
\* matching event left to yield: a call saves its iterator only when an
\* event remains at a position >= end_row.
NoExhaustedCheckpoint ==
  \A key \in DOMAIN cache :
    cache[key].pos < Len(Query(store, cache[key].cont, cache[key].query))

\* C12: single-use checkpoint.  After a call that found its iterator in the
\* cache, the cache holds no entry under the key of (container, query,
\* start_row), and the same call made again does not find one.
SingleUseCheckpoint ==
  last.path = "hit" =>
    /\ ~CacheHas(cache, KeyFor(last.req.container, last.req.query,
                               last.req.start_row).str)
    /\ BuildTable(store, cache, last.req).path # "hit"

\* a call that hit the cache, returned a row and saved the iterator again
SingleUseCheckpointWitness ==
  /\ last.path = "hit"
  /\ Len(last.rows) = 1
  /\ last.size # 0
  /\ Cardinality(DOMAIN cache) = 1

\* C15: query strings are opaque to key construction.  No call fails with
\* an error of the key formatting step (key % start_row, key % act_row).
KeyFormattingNeverRaises ==
  last.op = "BuildTable" => last.error \notin {"ValueError", "TypeError"}

\* C13: one query per scroll.  In a scroll [0,w), [w,2w), ... of one
\* (container, query) with no expiry and no other caller in between, every
\* call after the first takes the cache path, which opens and queries
\* nothing, and the scroll issues one query of the backing store in total.
OneQueryPerScroll ==
  /\ scroll.state \in {"running", "done"} =>
       /\ scroll.queries = 1
       /\ last.req.start_row > 0 => last.path = "hit"
  /\ scroll.state = "failed" => scroll.queries = 0

\* a scroll of three calls, the last of which reads the end of the result
OneQueryPerScrollWitness ==
  /\ scroll.state = "done"
  /\ scroll.width = 1
  /\ Len(scroll.rows) = 2
  /\ last.req.start_row = 2
  /\ last.path = "hit"
  /\ scroll.queries = 1

\* C14: cache frame.  A call changes the cache at no key other than those
\* of (container, query, start_row) and (container, query, end_row): every
\* other entry, the entries of other containers and other queries included,
\* is there before and after the call, unchanged, and no entry appears
\* under another key; a call that fails leaves the whole cache unchanged.
CacheFrame ==
  [][FetchWindow =>
       LET req == last'.req
           start == KeyFor(req.container, req.query, req.start_row)
           end == KeyFor(req.container, req.query, req.end_row)
       IN  /\ last'.error # "none" => cache' = cache
           /\ \A k \in DOMAIN cache :
                (\/ cache[k].cont # req.container
                 \/ cache[k].query # req.query
                 \/ ~start.ok
                 \/ k \notin {start.str, end.str}) =>
                  /\ k \in DOMAIN cache'
                  /\ cache'[k] = cache[k]
           /\ \A k \in DOMAIN cache' \ DOMAIN cache :
                end.ok /\ k = end.str]_vars

-----------------------------------------------------------------------------
(* Properties of scrolling forward *)

\* C2: idempotent windowing.  When a scroll over windows [0,w), [w,2w), ...
\* has ended, the rows it collected, concatenated, are the rows of the one
\* call for [0, N), N the number of matching events.
IdempotentWindowing ==
  (scroll.state \in {"done", "failed"}
     /\ Len(Query(store, scroll.req.container, scroll.req.query)) > 0) =>
    scroll.rows =
      BuildTable(store, cache,
                 Request(scroll.req.container, scroll.req.query, 0,
                         Len(Query(store, scroll.req.container,
                                   scroll.req.query)),
                         scroll.req.token)).rows

\* a scroll of width 1 that ran through two windows and a final empty one
\* on the iterator that its first call saved
IdempotentWindowingWitness ==
  /\ scroll.state = "done"
  /\ scroll.width = 1
  /\ Len(scroll.rows) = 2
  /\ scroll.queries = 1

-----------------------------------------------------------------------------
(* Properties of the renderers *)

\* C7: type-message totality.  The template laid out depends on the event
\* type alone: the three file types select their own template and every
\* other type the default one.
TypeMessageTotality ==
  message.layout_template # "" =>
    /\ message.type = "file.mtime" =>
         message.layout_template
           = "<div><pre class='inline'>M--</pre> File modified.</div>"
    /\ message.type = "file.atime" =>
         message.layout_template
           = "<div><pre class='inline'>-A-</pre> File access.</div>"
    /\ message.type = "file.ctime" =>
         message.layout_template
           = "<div><pre class='inline'>--C</pre> File metadata changed.</div>"
    /\ message.type \notin {"file.mtime", "file.atime", "file.ctime"} =>
         message.layout_template = "Event of type {{this.type|escape}}"

\* an unknown type laid out with the default template
TypeMessageTotalityWitness ==
  /\ message.type = "registry.key"
  /\ message.layout_template = "Event of type {{this.type|escape}}"

\* C8: detail lookup.  No event id, or the id "null": nothing is returned
\* and the container is not opened.  A decimal id looked up in an opened
\* container: the first event of the container with that id, or nothing
\* when there is none.
DetailLookup ==
  detail.op = "GetEvent" =>
    /\ (~detail.req.event.present \/ detail.req.event.value = NullId) =>
         /\ detail.out.result = <<>>
         /\ detail.out.error = "none"
         /\ ~detail.out.opened
    /\ \A n \in 0..MaxEvents :
         (detail.req.event \in {Param(Decimal(n)), Param(<<"0">> \o Decimal(n))}
            /\ Authorized(detail.req.token)) =>
           LET evs == ContainerEvents(store, detail.req.container)
               hits == {i \in 1..Len(evs) : evs[i].id = n}
           IN  /\ detail.out.error = "none"
               /\ detail.out.opened
               /\ hits = {} => detail.out.result = <<>>
               /\ hits # {} =>
                    detail.out.result
                      = <<evs[CHOOSE i \in hits : \A j \in hits : i <= j]>>

\* a lookup by id "1" that opened the container and returned its event
\* with sequence id 1
DetailLookupWitness ==
  /\ detail.op = "GetEvent"
  /\ detail.req.event = Param(<<"1">>)
  /\ detail.out.opened
  /\ Len(detail.out.result) = 1
  /\ detail.out.result[1].id = 1

-----------------------------------------------------------------------------
(* Properties of concurrent calls *)

\* C4: concurrent cache safety.  Every call that ran while identical calls
\* were running returns, without error, exactly the rows that the call run
\* alone returns.
ConcurrentCacheSafety ==
  \A t \in Threads :
    calls[t].pc = "done" =>
      /\ calls[t].error = "none"
      /\ calls[t].rows = BuildTable(store, EmptyCache, calls[t].req).rows

\* C16: the re-select prompt.  In every detail view (EventView and
\* EventSubjectView), when GetEvent returns nothing (the event id is absent,
\* is "null" or matches no event of the container), Layout raises no error
\* and renders the prompt 'Please select an event in the table above.'
ReselectPrompt ==
  (/\ detail.op \in {"EventSubjectView.Layout", "EventView.Layout"}
   /\ GetEvent(store, detail.req).error = "none"
   /\ GetEvent(store, detail.req).result = <<>>) =>
    /\ detail.out.error = "none"
    /\ detail.out.rendered = <<error_message>>

====
